---------------------------- MODULE Spec2Model ----------------------------
(***************************************************************************)
(* A model of the ACR122U driver (acr122upy): the session state kept by    *)
(* the hotplug callbacks update / update_card, the blocking command        *)
(* executor execute with its stall and timeout, the two-phase              *)
(* authentication auth, block_read, and the default-key search of main.    *)
(*                                                                         *)
(* Time is kept relative.  The executor only ever uses differences of      *)
(* time() readings, so the model stores those differences:                 *)
(*   age        = time() - monitor['last'], saturating at period           *)
(*   ex[p].left = what is left of the sleep(t) of _stall                   *)
(*   ex[p].elapsed = time() - t_start, saturating at timeout               *)
(* and Tick lets one unit of time pass.                                    *)
(***************************************************************************)
EXTENDS Integers, Sequences, FiniteSets, TLC

(***************************************************************************)
(* Bounds of the model.                                                    *)
(***************************************************************************)
MaxPeriod  == 2      \* period passed to ACR122u(...) ranges over 1..MaxPeriod
MaxTimeout == 2      \* timeout passed to execute ranges over 0..MaxTimeout
MaxBatch   == 2      \* longest added / removed list of one notification

None == "None"

Min(a, b) == IF a < b THEN a ELSE b
Max(a, b) == IF a > b THEN a ELSE b

(***************************************************************************)
(* Readers and cards of the environment.  Names are character sequences    *)
(* so that the substring test of update can be computed.                   *)
(***************************************************************************)
Readers == {"R1", "R2", "R3"}

ReaderName(r) ==
    CASE r = "R1" -> <<"A", "C", "R", "0">>
      [] r = "R2" -> <<"A", "C", "R", "1">>
      [] r = "R3" -> <<"Y", "u", "b", "i">>

Filters == { <<>>, <<"A", "C", "R">> }

Cards == {"K1", "K4", "KU"}

\* the reader name a card object carries (card.reader)
CardReader(c) ==
    CASE c = "K1" -> ReaderName("R1")
      [] c = "K4" -> ReaderName("R2")
      [] c = "KU" -> ReaderName("R1")

\* answer-to-reset of each card (card.atr)
CardAtr(c) ==
    CASE c = "K1" -> << \h3B, \h8F, \h80, \h01, \h80, \h4F, \h0C, \hA0, \h00, \h00,
                        \h03, \h06, \h03, \h00, \h01, \h00, \h00, \h00, \h00, \h6A >>
      [] c = "K4" -> << \h3B, \h8F, \h80, \h01, \h80, \h4F, \h0C, \hA0, \h00, \h00,
                        \h03, \h06, \h03, \h00, \h02, \h00, \h00, \h00, \h00, \h69 >>
      [] c = "KU" -> << \h3B, \h8F, \h80, \h01, \h80, \h4F, \h0C, \hA0, \h00, \h00,
                        \h03, \h06, \h03, \h00, \h3A, \h00, \h00, \h00, \h00, \h51 >>

(***************************************************************************)
(* s[lo:hi] of Python for negative lo and hi, on a sequence.               *)
(***************************************************************************)
SliceNeg(s, lo, hi) ==
    LET a == Max(Len(s) + lo, 0)
        b == Max(Len(s) + hi, 0)
    IN  SubSeq(s, a + 1, b)

\* sub in s, for sequences
Contains(sub, s) ==
    \E i \in 0 .. (Len(s) - Len(sub)) : SubSeq(s, i + 1, i + Len(sub)) = sub

(***************************************************************************)
(* _PARSER_CARD: card type code -> (name, number of blocks).  The second   *)
(* entry for (0xF0, 0x11) overwrites the first, as in a dict literal.      *)
(***************************************************************************)
\* 0xFFFFFFFF in the source; the model checker's integers are 32-bit signed, so
\* the sentinel is the largest of them: all that is used of it is that it
\* exceeds every block index.
Unbounded == 2147483647

PARSER_CARD_KEYS ==
    { <<\h00, \h01>>, <<\h00, \h02>>, <<\h00, \h03>>, <<\h00, \h26>>,
      <<\hF0, \h04>>, <<\hF0, \h11>> }

PARSER_CARD(k) ==
    CASE k = <<\h00, \h01>> -> <<"MIFARE Classic 1K", \h040>>
      [] k = <<\h00, \h02>> -> <<"MIFARE Classic 4K", \h100>>
      [] k = <<\h00, \h03>> -> <<"MIFARE Ultralight", Unbounded>>
      [] k = <<\h00, \h26>> -> <<"MIFARE Mini", Unbounded>>
      [] k = <<\hF0, \h04>> -> <<"Topaz and Jewel", Unbounded>>
      [] k = <<\hF0, \h11>> -> <<"FeliCa 424K", Unbounded>>

\* card.type as update_card sets it: _PARSER_CARD.get(tuple(card.atr[-7:-5]), 'UNKNOWN'),
\* a (name, blocks) tuple or the string 'UNKNOWN'; values carry their Python type
CardType(c) ==
    LET k == SliceNeg(CardAtr(c), -7, -5)
    IN  IF k \in PARSER_CARD_KEYS
        THEN [kind |-> "tuple", name |-> PARSER_CARD(k)[1], blocks |-> PARSER_CARD(k)[2]]
        ELSE [kind |-> "str", name |-> "UNKNOWN", blocks |-> 0]

\* x[1] of Python on a card type: the block count of a tuple, the character
\* 'N' of the string 'UNKNOWN'
Index1(type) ==
    IF type.kind = "tuple"
    THEN [kind |-> "int", int |-> type.blocks]
    ELSE [kind |-> "str", int |-> 0]

(***************************************************************************)
(* The transport: what connection.transmit can return, and what            *)
(* parse_response makes of it.                                             *)
(***************************************************************************)
Responses ==
    { << <<\hAA, \hBB>>, \h90, \h00 >>,
      << <<>>,           \h63, \h00 >>,
      << <<>>,           \h6A, \h81 >>,
      << <<>>,           \h90, \h81 >> }

HexDigit(n) ==
    <<"0", "1", "2", "3", "4", "5", "6", "7",
      "8", "9", "A", "B", "C", "D", "E", "F">>[n + 1]

\* smartcard.util.toHexString: two upper-case hex digits per byte
toHexString(bytes) ==
    [i \in 1 .. Len(bytes) |-> <<HexDigit(bytes[i] \div 16), HexDigit(bytes[i] % 16)>>]

\* a classifier that looks at sw1 alone to tell Success
parse_response_Sw1Only(response) ==
    LET data == response[1]
        sw1  == response[2]
        sw2  == response[3]
        message ==
            IF sw1 = \h90 THEN "Success"
            ELSE IF <<sw1, sw2>> = <<\h63, \h00>> THEN "Failed"
            ELSE IF <<sw1, sw2>> = <<\h6A, \h81>> THEN "Not Supported"
            ELSE "Unknown"
    IN  [data |-> toHexString(data), sw1 |-> toHexString(<<sw1>>),
         sw2 |-> toHexString(<<sw2>>), message |-> message]

parse_response(response) ==
    LET data == response[1]
        sw1  == response[2]
        sw2  == response[3]
        message ==
            IF <<sw1, sw2>> = <<\h90, \h00>> THEN "Success"
            ELSE IF <<sw1, sw2>> = <<\h63, \h00>> THEN "Failed"
            ELSE IF <<sw1, sw2>> = <<\h6A, \h81>> THEN "Not Supported"
            ELSE "Unknown"
    IN  [data |-> toHexString(data), sw1 |-> toHexString(<<sw1>>),
         sw2 |-> toHexString(<<sw2>>), message |-> message]

(***************************************************************************)
(* The commands, as the methods build them.                                *)
(***************************************************************************)
CmdGetUid == <<\hFF, \hCA, \h00, \h00, \h00>>
CmdGetAts == <<\hFF, \hCA, \h01, \h00, \h00>>
CmdLoadKey(key, key_number) == <<\hFF, \h82, \h00, key_number, \h06>> \o key
\* a commit that always names key slot 0
CmdCommitAuth_Slot0(block, key_type, key_number) ==
    <<\hFF, \h86, \h00, \h00, \h05>> \o <<\h01, \h00, block, \h60 + key_type, \h00>>

CmdCommitAuth(block, key_type, key_number) ==
    <<\hFF, \h86, \h00, \h00, \h05>> \o <<\h01, \h00, block, \h60 + key_type, key_number>>
CmdBlockRead(block, length) == <<\hFF, \hB0, \h00, block, length>>

IsLoadKey(c)    == Len(c) >= 5 /\ c[2] = \h82
IsCommitAuth(c) == Len(c) = 10 /\ c[2] = \h86
IsBlockRead(c)  == Len(c) = 5 /\ c[2] = \hB0

\* timeout = 20, the default of execute
DefaultTimeout == 20

\* the exceptions execute raises when its loop ends
NoReaderConnected == [type |-> "Exception", msg |-> "No reader is connected with USB"]
NoCardPresent     == [type |-> "Exception", msg |-> "No tag is connected"]
CommandTimeout    == [type |-> "Exception", msg |-> "Fatal error"]
TimeoutErrors     == {NoReaderConnected, NoCardPresent, CommandTimeout}

\* the other ways a call can end
AssertionError == [type |-> "AssertionError", msg |-> ""]
TypeError      == [type |-> "TypeError", msg |-> ""]
AttributeError == [type |-> "AttributeError", msg |-> ""]
ConnectError   == [type |-> "CardConnectionException", msg |-> "connect"]
TransmitError  == [type |-> "CardConnectionException", msg |-> "transmit"]

\* the threads that can call into the driver; which of them do is `callers`
Procs == {1, 2}

(***************************************************************************)
(* Inputs of the calls.                                                    *)
(***************************************************************************)
Blocks  == {-1, 63, 64}
Lengths == {-1, 16, 17}
KeyTypes == {0, 1, 2}

NoErr    == [type |-> "none", msg |-> ""]
NoResult == [data |-> <<>>, sw1 |-> <<>>, sw2 |-> <<>>, message |-> "none"]

VARIABLES
    filter,     \* self.__filter
    period,     \* self.__monitor['period']
    reader,     \* self.__reader: None or a reader
    card,       \* self.__card: None or a card
    age,        \* time() - self.__monitor['last'], saturating at period
    conn,       \* conn[c]: 0 if card object c has no connection attribute,
                \* else the caller whose execute() attached it
    notice,     \* how the last notification handler ended
    callers,    \* the threads that call into the driver
    mock,       \* the transport: arbitrary, or a mocked reader and card
    slots,      \* the two volatile key slots of the mocked reader
    ex          \* ex[p]: where caller p is in its call, and the call's locals

vars == <<filter, period, reader, card, age, conn, notice, callers, mock, slots, ex>>

session == <<filter, period, reader, card, age, notice>>
setup == <<callers, mock>>

Idle ==
    [ pc        |-> "idle",     \* position in the code
      op        |-> "none",     \* the method called
      phase     |-> "none",     \* what the caller of execute does with the response
      key       |-> <<>>,
      block     |-> 0,
      ktype     |-> 0,
      length    |-> 0,
      cmd       |-> <<>>,       \* command of execute
      timeout   |-> 0,          \* timeout of execute
      left      |-> 0,          \* what is left of sleep(t)
      elapsed   |-> 0,          \* time() - t_start, saturating at timeout
      pending   |-> [kind |-> "none", resp |-> <<>>, err |-> NoErr],
      result    |-> NoResult,   \* the cmd_response returned
      err       |-> NoErr,      \* the exception the call ended with
      sent      |-> <<>>,       \* history: commands handed to transmit in this call
      got       |-> <<>>,       \* history: responses transmit returned in this call
      d0        |-> 0,          \* history: age when execute was entered
      owed      |-> 0,          \* history: what was left of the poll period when
                                \* execute was entered, less the time passed since
      opened    |-> FALSE,      \* history: this call attached a connection
      kidx      |-> 0,          \* key search: position in the key catalog
      tried     |-> <<>>,       \* history: catalog positions tried for (block, ktype)
      combos    |-> <<>>,       \* history: the (block, ktype) searched, in order
      reported  |-> <<>>,       \* history: the (block, ktype, key) printed as found
      calls     |-> 0 ]         \* history: number of auth calls of the search

Busy(p) == ex[p].pc \notin {"idle", "done"}

(***************************************************************************)
(* Lists a notification can carry: no element twice, added and removed     *)
(* disjoint.                                                               *)
(***************************************************************************)
Range(s) == { s[i] : i \in DOMAIN s }

Lists(S) ==
    { s \in UNION { [1 .. n -> S] : n \in 0 .. MaxBatch } :
        \A i, j \in DOMAIN s : i # j => s[i] # s[j] }

\* list(filter(lambda x: rd.name == x.reader, cnew))
CardsOfReader(rd, cnew) ==
    LET F[i \in 0 .. Len(cnew)] ==
            IF i = 0 THEN <<>>
            ELSE IF ReaderName(rd) = CardReader(cnew[i])
                 THEN Append(F[i - 1], cnew[i]) ELSE F[i - 1]
    IN  F[Len(cnew)]

\* list(filter(lambda x: x == c, cold))
CardsEqual(c, cold) ==
    LET F[i \in 0 .. Len(cold)] ==
            IF i = 0 THEN <<>>
            ELSE IF cold[i] = c THEN Append(F[i - 1], cold[i]) ELSE F[i - 1]
    IN  F[Len(cold)]

Matches(r) == filter = <<>> \/ Contains(filter, ReaderName(r))

\* the loops of update over rnew and then rold, from tracked reader rd
\* a loop over rnew that stops at the first matching reader
AfterAdded_First(rd, rnew) ==
    LET hits == { i \in DOMAIN rnew : Matches(rnew[i]) }
    IN  IF hits = {} THEN rd
        ELSE rnew[CHOOSE i \in hits : \A j \in hits : i <= j]

AfterAdded(rd, rnew) ==
    LET F[i \in 0 .. Len(rnew)] ==
            IF i = 0 THEN rd
            ELSE IF Matches(rnew[i]) THEN rnew[i] ELSE F[i - 1]
    IN  F[Len(rnew)]

AfterRemoved(rd, rold) ==
    IF \E i \in DOMAIN rold : Matches(rold[i]) THEN None ELSE rd

Init ==
    /\ filter \in Filters
    /\ period \in 1 .. MaxPeriod
    /\ reader = None
    /\ card = None
    /\ age = 0
    /\ conn = [c \in Cards |-> 0]
    /\ notice = "none"
    /\ callers = {1}
    /\ mock = [on |-> FALSE, accepts |-> {}]
    /\ slots = [n \in {0, 1} |-> <<>>]
    /\ ex = [p \in Procs |-> Idle]

\* _refreshed(): monitor['last'] = time()
Refreshed == age' = 0

Update(rnew, rold) ==
    /\ Refreshed
    /\ reader' = AfterRemoved(AfterAdded(reader, rnew), rold)
    /\ notice' = "ok"
    /\ UNCHANGED <<filter, period, card, conn, setup, slots, ex>>

\* an update_card that looks for the card tracked before the additions
\* among the removed cards
UpdateCard_RemoveOld(cnew, cold) ==
    /\ Refreshed
    /\ IF reader = None
       THEN /\ notice' = "ok"
            /\ UNCHANGED card
       ELSE LET added   == CardsOfReader(reader, cnew)
                card1   == IF Len(added) = 1 THEN added[1] ELSE card
                removed == CardsEqual(card, cold)
            IN  IF Len(added) > 1
                THEN /\ notice' = "AssertionError"
                     /\ UNCHANGED card
                ELSE IF Len(removed) > 1
                THEN /\ notice' = "AssertionError"
                     /\ card' = card1
                ELSE /\ notice' = "ok"
                     /\ card' = IF Len(removed) = 1 THEN None ELSE card1
    /\ UNCHANGED <<filter, period, reader, conn, setup, slots, ex>>

\* an update_card without `if self.__reader:`, taking the cards of any reader
UpdateCard_NoGate(cnew, cold) ==
    /\ Refreshed
    /\ LET card1 == IF Len(cnew) >= 1 THEN cnew[Len(cnew)] ELSE card
       IN  card' = IF \E i \in DOMAIN cold : cold[i] = card1 THEN None ELSE card1
    /\ notice' = "ok"
    /\ UNCHANGED <<filter, period, reader, conn, setup, slots, ex>>

UpdateCard(cnew, cold) ==
    /\ Refreshed
    /\ IF reader = None
       THEN /\ notice' = "ok"
            /\ UNCHANGED card
       ELSE LET added   == CardsOfReader(reader, cnew)
                card1   == IF Len(added) = 1 THEN added[1] ELSE card
                removed == CardsEqual(card1, cold)
            IN  IF Len(added) > 1
                THEN /\ notice' = "AssertionError"
                     /\ UNCHANGED card
                ELSE IF Len(removed) > 1
                THEN /\ notice' = "AssertionError"
                     /\ card' = card1
                ELSE /\ notice' = "ok"
                     /\ card' = IF Len(removed) = 1 THEN None ELSE card1
    /\ UNCHANGED <<filter, period, reader, conn, setup, slots, ex>>

\* one unit of time passes
Tick ==
    /\ age' = Min(age + 1, period)
    /\ ex' = [p \in Procs |->
                LET e == ex[p] IN
                [e EXCEPT !.left    = IF e.pc = "sleep" THEN Max(e.left - 1, 0) ELSE e.left,
                          !.elapsed = IF e.pc = "loop"
                                      THEN Min(e.elapsed + 1, e.timeout) ELSE e.elapsed,
                          !.owed    = Max(e.owed - 1, 0)]]
    /\ UNCHANGED <<filter, period, reader, card, conn, notice, setup, slots>>

(***************************************************************************)
(* The calls.  Each action below is one step of caller p; a step reads the *)
(* shared session state at most at one moment.                             *)
(***************************************************************************)
\* the frame of execute is left: its locals are gone
Leave(e) ==
    [e EXCEPT !.cmd = <<>>, !.timeout = 0, !.left = 0, !.elapsed = 0,
              !.pending = Idle.pending, !.d0 = 0, !.owed = 0]

\* the call ends by raising exc
Raise(e, exc) == [Leave(e) EXCEPT !.pc = "done", !.err = exc]

\* execute(cmd, timeout) is entered
Enter(e, cmd, timeout) ==
    [e EXCEPT !.pc = "stall", !.cmd = cmd, !.timeout = timeout,
              !.d0 = age, !.owed = period - age]

\* _block_max()
block_max ==
    IF card # None THEN Index1(CardType(card)) ELSE [kind |-> "int", int |-> Unbounded]

\* a bounds check that lets block == _block_max() through
AssertBlock_OffByOne(block) ==
    IF ~ (0 <= block) THEN AssertionError
    ELSE IF block_max.kind # "int" THEN TypeError
    ELSE IF block <= block_max.int THEN NoErr
    ELSE AssertionError

\* assert 0 <= block < self._block_max(): the exception it ends with, or NoErr
AssertBlock(block) ==
    IF ~ (0 <= block) THEN AssertionError
    ELSE IF block_max.kind # "int" THEN TypeError
    ELSE IF block < block_max.int THEN NoErr
    ELSE AssertionError

CallExecute(p, cmd, timeout) ==
    /\ ex[p].pc = "idle"
    /\ ex' = [ex EXCEPT ![p] =
                Enter([Idle EXCEPT !.op = "execute", !.phase = "raw"], cmd, timeout)]
    /\ UNCHANGED <<session, conn, setup, slots>>

CallGetUid(p) ==
    /\ ex[p].pc = "idle"
    /\ ex' = [ex EXCEPT ![p] =
                Enter([Idle EXCEPT !.op = "get_uid", !.phase = "parse"],
                      CmdGetUid, DefaultTimeout)]
    /\ UNCHANGED <<session, conn, setup, slots>>

CallGetAts(p) ==
    /\ ex[p].pc = "idle"
    /\ ex' = [ex EXCEPT ![p] =
                Enter([Idle EXCEPT !.op = "get_ats", !.phase = "parse"],
                      CmdGetAts, DefaultTimeout)]
    /\ UNCHANGED <<session, conn, setup, slots>>

\* block_read(block, length): its two asserts, then execute is entered
block_read(e0, block, length) ==
    LET e == [e0 EXCEPT !.phase = "parse", !.block = block, !.length = length]
    IN  IF AssertBlock(block) # NoErr THEN Raise(e, AssertBlock(block))
        ELSE IF ~ (0 <= length /\ length <= 16) THEN Raise(e, AssertionError)
        ELSE Enter(e, CmdBlockRead(block, length), DefaultTimeout)

CallBlockRead(p, block, length) ==
    /\ ex[p].pc = "idle"
    /\ ex' = [ex EXCEPT ![p] = block_read([Idle EXCEPT !.op = "block_read"], block, length)]
    /\ UNCHANGED <<session, conn, setup, slots>>

\* __load_auth_key(key, key_number): its asserts, then execute is entered
load_auth_key(e, key, key_number) ==
    IF Len(key) # 6 THEN Raise(e, AssertionError)
    ELSE IF ~ (key_number = 0 \/ key_number = 1) THEN Raise(e, AssertionError)
    ELSE Enter(e, CmdLoadKey(key, key_number), DefaultTimeout)

\* auth(key, block, key_type) up to the execute of __load_auth_key(key, key_number=key_type)
auth(e0, key, block, key_type) ==
    LET e == [e0 EXCEPT !.phase = "load", !.key = key, !.block = block,
                        !.ktype = key_type, !.sent = <<>>, !.got = <<>>,
                        !.result = NoResult]
    IN  load_auth_key(e, key, key_type)

(***************************************************************************)
(* The key search of main (lines 29-40), written as what happens between   *)
(* one call of a driver method and the next.                               *)
(***************************************************************************)
\* _DEFAULT_KEYS, the catalog default_keys() yields
DEFAULT_KEYS ==
    << <<\hFF, \hFF, \hFF, \hFF, \hFF, \hFF>>,
       <<\hA0, \hB0, \hC0, \hD0, \hE0, \hF0>>,
       <<\hA1, \hB1, \hC1, \hD1, \hE1, \hF1>>,
       <<\hA0, \hA1, \hA2, \hA3, \hA4, \hA5>>,
       <<\hB0, \hB1, \hB2, \hB3, \hB4, \hB5>>,
       <<\h4D, \h3A, \h99, \hC3, \h51, \hDD>>,
       <<\h1A, \h98, \h2C, \h7E, \h45, \h9A>>,
       <<\h00, \h00, \h00, \h00, \h00, \h00>>,
       <<\hAA, \hBB, \hCC, \hDD, \hEE, \hFF>>,
       <<\hD3, \hF7, \hD3, \hF7, \hD3, \hF7>>,
       <<\hAA, \hBB, \hCC, \hDD, \hEE, \hFF>>,
       <<\h71, \h4C, \h5C, \h88, \h6E, \h97>>,
       <<\h58, \h7E, \hE5, \hF9, \h35, \h0F>>,
       <<\hA0, \h47, \h8C, \hC3, \h90, \h91>>,
       <<\h53, \h3C, \hB6, \hC7, \h23, \hF6>>,
       <<\h8F, \hD0, \hA4, \hF2, \h56, \hE9>> >>

\* range(64) of the block loop
SearchBlocks == 64

\* range(2) of the key type loop
SearchKeyTypes == 2

\* reader.auth(key, block=block, key_type=ktype) for the key at catalog position kidx
SearchAuth(e, block, ktype, kidx) ==
    auth([e EXCEPT !.kidx = kidx,
                   !.tried = IF kidx = 1 THEN <<1>> ELSE Append(e.tried, kidx),
                   !.combos = IF kidx = 1 THEN Append(e.combos, <<block, ktype>>)
                              ELSE e.combos,
                   !.calls = e.calls + 1],
         DEFAULT_KEYS[kidx], block, ktype)

\* the next turn of `for block in range(64)`, or the return of main
NextBlock(e) ==
    IF e.block + 1 < SearchBlocks THEN SearchAuth(e, e.block + 1, 0, 1)
    ELSE [e EXCEPT !.pc = "done"]

\* the next turn of `for ktype in range(2)`; after the last,
\* `if block == 0: print(reader.block_read(block))`
NextKeyType(e0) ==
    LET e == [e0 EXCEPT !.tried = <<>>] IN
    IF e.ktype + 1 < SearchKeyTypes THEN SearchAuth(e, e.block, e.ktype + 1, 1)
    ELSE IF e.block = 0 THEN block_read(e, e.block, 16)
    ELSE NextBlock(e)

\* a search that keeps trying keys after one was found
SearchAfterAuth_NoBreak(e, res) ==
    LET e1 == IF res.message = "Success"
              THEN [e EXCEPT !.reported = Append(e.reported, <<e.block, e.ktype, e.key>>)]
              ELSE e
    IN  IF e.kidx < Len(DEFAULT_KEYS) THEN SearchAuth(e1, e.block, e.ktype, e.kidx + 1)
        ELSE NextKeyType(e1)

\* `if reader.auth(...)[-1] == 'Success': print(...); break`, and the next
\* turn of `for key in default_keys()`
SearchAfterAuth(e, res) ==
    IF res.message = "Success"
    THEN NextKeyType([e EXCEPT !.reported = Append(e.reported, <<e.block, e.ktype, e.key>>)])
    ELSE IF e.kidx < Len(DEFAULT_KEYS) THEN SearchAuth(e, e.block, e.ktype, e.kidx + 1)
    ELSE NextKeyType(e)

\* auth returns res to its caller: to the key search, or to the caller of auth
AuthReturn(e, res) ==
    IF e.op = "search" THEN SearchAfterAuth([e EXCEPT !.result = res], res)
    ELSE [e EXCEPT !.pc = "done", !.result = res]

\* an auth that commits whatever the load phase answered
Returned_NoShortCircuit(e0, r) ==
    LET e == Leave(e0) IN
    CASE e.phase = "raw"   -> [e EXCEPT !.pc = "done"]
      [] e.phase = "parse" -> [e EXCEPT !.pc = "done", !.result = parse_response(r)]
      [] e.phase = "load"  -> [e EXCEPT !.pc = "commit_check", !.result = parse_response(r)]
      [] e.phase = "commit" -> AuthReturn(e, parse_response(r))

\* execute returns response r to the method that called it
Returned(e0, r) ==
    LET e == Leave(e0) IN
    CASE e.phase = "raw"   -> [e EXCEPT !.pc = "done"]
      [] e.phase = "parse" ->
            IF e.op = "search" THEN NextBlock([e EXCEPT !.result = parse_response(r)])
            ELSE [e EXCEPT !.pc = "done", !.result = parse_response(r)]
      [] e.phase = "load"  ->
            LET result == parse_response(r)
            IN  IF result.message = "Success"
                THEN [e EXCEPT !.pc = "commit_check", !.result = result]
                ELSE AuthReturn(e, result)
      [] e.phase = "commit" -> AuthReturn(e, parse_response(r))

CallAuth(p, key, block, key_type) ==
    /\ ex[p].pc = "idle"
    /\ ex' = [ex EXCEPT ![p] = auth([Idle EXCEPT !.op = "auth"], key, block, key_type)]
    /\ UNCHANGED <<session, conn, setup, slots>>

\* __commit_auth(block, key_type, key_number=key_type): its assert, then execute
CommitCheck(p) ==
    LET e == ex[p]
        key_number == e.ktype
    IN
    /\ e.pc = "commit_check"
    /\ ex' = [ex EXCEPT ![p] =
                IF AssertBlock(e.block) # NoErr THEN Raise(e, AssertBlock(e.block))
                ELSE Enter([e EXCEPT !.phase = "commit"],
                           CmdCommitAuth(e.block, e.ktype, key_number), DefaultTimeout)]
    /\ UNCHANGED <<session, conn, setup, slots>>

(***************************************************************************)
(* execute                                                                 *)
(***************************************************************************)
\* a _stall that computes t and does not sleep
Stall_NoSleep(p) ==
    LET e == ex[p] IN
    /\ e.pc = "stall"
    /\ ex' = [ex EXCEPT ![p] = [e EXCEPT !.pc = "loop", !.elapsed = 0]]
    /\ UNCHANGED <<session, conn, setup, slots>>

\* _stall(): t = last + period - time(); if t > 0: sleep(t); else t_start = time()
Stall(p) ==
    LET e == ex[p]
        t == period - age
    IN
    /\ e.pc = "stall"
    /\ ex' = [ex EXCEPT ![p] =
                IF t > 0 THEN [e EXCEPT !.pc = "sleep", !.left = t]
                ELSE [e EXCEPT !.pc = "loop", !.elapsed = 0]]
    /\ UNCHANGED <<session, conn, setup, slots>>

\* sleep(t) is over; t_start = time()
Wake(p) ==
    /\ ex[p].pc = "sleep"
    /\ ex[p].left = 0
    /\ ex' = [ex EXCEPT ![p].pc = "loop", ![p].elapsed = 0]
    /\ UNCHANGED <<session, conn, setup, slots>>

\* a loop that waits for a card however long it takes
Loop_NoTimeout(p) ==
    LET e == ex[p] IN
    /\ e.pc = "loop"
    /\ ex' = [ex EXCEPT ![p].pc = IF card # None THEN "create" ELSE "loop"]
    /\ UNCHANGED <<session, conn, setup, slots>>

\* while (time() - t_start) < timeout: if self.__card: ...
Loop(p) ==
    LET e == ex[p] IN
    /\ e.pc = "loop"
    /\ ex' = [ex EXCEPT ![p].pc =
                IF e.elapsed < e.timeout
                THEN (IF card # None THEN "create" ELSE "loop")
                ELSE "chk_reader"]
    /\ UNCHANGED <<session, conn, setup, slots>>

\* self.__card.connection = self.__card.createConnection()
Create(p) ==
    LET e == ex[p] IN
    /\ e.pc = "create"
    /\ IF card = None
       THEN /\ ex' = [ex EXCEPT ![p] = Raise(e, AttributeError)]
            /\ UNCHANGED conn
       ELSE /\ ex' = [ex EXCEPT ![p].pc = "connect", ![p].opened = TRUE]
            /\ conn' = [conn EXCEPT ![card] = p]
    /\ UNCHANGED <<session, setup, slots>>

\* self.__card.connection.connect(): returns, or raises
Connect(p) ==
    LET e == ex[p] IN
    /\ e.pc = "connect"
    /\ IF card = None \/ conn[card] = 0
       THEN ex' = [ex EXCEPT ![p] = Raise(e, AttributeError)]
       ELSE \/ ex' = [ex EXCEPT ![p].pc = "transmit"]
            \/ ex' = [ex EXCEPT ![p] = Raise(e, ConnectError)]
    /\ UNCHANGED <<session, conn, setup, slots>>

(***************************************************************************)
(* The mocked reader and card: a load-key command stores the key in the    *)
(* slot it names and succeeds; a commit succeeds when the card accepts     *)
(* (block, key type, key of the named slot) and fails otherwise; any other *)
(* command succeeds.                                                       *)
(***************************************************************************)
MockResponse(cmd) ==
    IF IsCommitAuth(cmd)
    THEN IF <<cmd[8], cmd[9] - \h60, slots[cmd[10]]>> \in mock.accepts
         THEN << <<>>, \h90, \h00 >>
         ELSE << <<>>, \h63, \h00 >>
    ELSE IF IsLoadKey(cmd) THEN << <<>>, \h90, \h00 >>
    ELSE << <<\hAA, \hBB>>, \h90, \h00 >>

\* what connection.transmit(cmd) can return
Answers(cmd) == IF mock.on THEN {MockResponse(cmd)} ELSE Responses

SlotsAfter(cmd) ==
    IF mock.on /\ IsLoadKey(cmd)
    THEN [slots EXCEPT ![cmd[4]] = SubSeq(cmd, 6, Len(cmd))]
    ELSE slots

\* try: return self.__card.connection.transmit(command): returns a response,
\* or raises; either way the finally clause is next
Transmit(p) ==
    LET e == ex[p] IN
    /\ e.pc = "transmit"
    /\ IF card = None \/ conn[card] = 0
       THEN ex' = [ex EXCEPT ![p].pc = "finally",
                             ![p].pending = [kind |-> "err", resp |-> <<>>,
                                             err |-> AttributeError]]
       ELSE \/ \E r \in Answers(e.cmd) :
                 ex' = [ex EXCEPT ![p].pc = "finally",
                                  ![p].sent = Append(e.sent, e.cmd),
                                  ![p].got  = Append(e.got, r),
                                  ![p].pending = [kind |-> "ok", resp |-> r,
                                                  err |-> NoErr]]
            \/ ex' = [ex EXCEPT ![p].pc = "finally",
                                ![p].sent = Append(e.sent, e.cmd),
                                ![p].pending = [kind |-> "err", resp |-> <<>>,
                                                err |-> TransmitError]]
    /\ slots' = IF card # None /\ conn[card] # 0 /\ ex'[p].got # e.got
                THEN SlotsAfter(e.cmd) ELSE slots
    /\ UNCHANGED <<session, conn, setup>>

\* a finally clause that deletes the tracked card along with its connection
Finally_ForgetsCard(p) ==
    LET e == ex[p] IN
    /\ e.pc = "finally"
    /\ IF card = None \/ conn[card] = 0
       THEN /\ ex' = [ex EXCEPT ![p] = Raise(e, AttributeError)]
            /\ UNCHANGED <<conn, card>>
       ELSE /\ conn' = [conn EXCEPT ![card] = 0]
            /\ card' = None
            /\ ex' = [ex EXCEPT ![p] =
                        IF e.pending.kind = "ok" THEN Returned(e, e.pending.resp)
                        ELSE Raise(e, e.pending.err)]
    /\ UNCHANGED <<filter, period, reader, age, notice, setup, slots>>

\* finally: del self.__card.connection, then the return or the raise goes on
Finally(p) ==
    LET e == ex[p] IN
    /\ e.pc = "finally"
    /\ IF card = None \/ conn[card] = 0
       THEN /\ ex' = [ex EXCEPT ![p] = Raise(e, AttributeError)]
            /\ UNCHANGED conn
       ELSE /\ conn' = [conn EXCEPT ![card] = 0]
            /\ ex' = [ex EXCEPT ![p] =
                        IF e.pending.kind = "ok" THEN Returned(e, e.pending.resp)
                        ELSE Raise(e, e.pending.err)]
    /\ UNCHANGED <<session, setup, slots>>

\* else: if not self.__reader: raise Exception('No reader is connected with USB')
ChkReader(p) ==
    LET e == ex[p] IN
    /\ e.pc = "chk_reader"
    /\ ex' = [ex EXCEPT ![p] =
                IF reader = None THEN Raise(e, NoReaderConnected)
                ELSE [e EXCEPT !.pc = "chk_card"]]
    /\ UNCHANGED <<session, conn, setup, slots>>

\* if not self.__card: raise Exception('No tag is connected')
\* else: raise Exception('Fatal error')
ChkCard(p) ==
    LET e == ex[p] IN
    /\ e.pc = "chk_card"
    /\ ex' = [ex EXCEPT ![p] =
                IF card = None THEN Raise(e, NoCardPresent)
                ELSE Raise(e, CommandTimeout)]
    /\ UNCHANGED <<session, conn, setup, slots>>

\* the caller is done with the outcome of its call
Forget(p) ==
    /\ ex[p].pc = "done"
    /\ ex' = [ex EXCEPT ![p] = Idle]
    /\ UNCHANGED <<session, conn, setup, slots>>

Keys ==
    { <<\hFF, \hFF, \hFF, \hFF, \hFF, \hFF>>,
      <<\hA0, \hB0, \hC0, \hD0, \hE0>> }

\* main reaches its search loop
CallSearch(p) ==
    /\ ex[p].pc = "idle"
    /\ ex' = [ex EXCEPT ![p] = SearchAuth([Idle EXCEPT !.op = "search"], 0, 0, 1)]
    /\ UNCHANGED <<session, conn, setup, slots>>

\* the steps of execute
Execute(p) ==
    \/ Stall(p) \/ Wake(p) \/ Loop(p)
    \/ Create(p) \/ Connect(p) \/ Transmit(p) \/ Finally(p)
    \/ ChkReader(p) \/ ChkCard(p)

Notify ==
    \/ \E rnew \in Lists(Readers), rold \in Lists(Readers) :
          /\ Range(rnew) \cap Range(rold) = {}
          /\ Update(rnew, rold)
    \/ \E cnew \in Lists(Cards), cold \in Lists(Cards) :
          /\ Range(cnew) \cap Range(cold) = {}
          /\ UpdateCard(cnew, cold)

\* one reader or one card is attached or detached
NotifyOne ==
    \/ \E r \in Readers : Update(<<r>>, <<>>) \/ Update(<<>>, <<r>>)
    \/ \E c \in Cards : UpdateCard(<<c>>, <<>>) \/ UpdateCard(<<>>, <<c>>)

(***************************************************************************)
(* The session under hotplug notifications alone.                          *)
(***************************************************************************)
NextSession == Notify \/ Tick

SpecSession == Init /\ [][NextSession]_vars

(***************************************************************************)
(* execute(command, timeout) called while notifications arrive.            *)
(***************************************************************************)
InitDevice ==
    /\ Init
    /\ filter = <<"A", "C", "R">>

\* ACR122u(): device = 'ACR122U', period = 1
InitDefault ==
    /\ InitDevice
    /\ period = 1

Next ==
    \/ NotifyOne
    \/ Tick
    \/ \E p \in callers :
          \/ \E timeout \in 0 .. MaxTimeout : CallExecute(p, CmdGetAts, timeout)
          \/ Execute(p)
          \/ Forget(p)

Spec == InitDevice /\ [][Next]_vars

\* time passes, and a thread that can take a step of execute takes it
FairSpec == Spec /\ WF_vars(Tick) /\ \A p \in Procs : WF_vars(Execute(p))

(***************************************************************************)
(* execute(command, timeout) with notifications arriving between calls     *)
(* only.                                                                   *)
(***************************************************************************)
NextQuiet ==
    \/ (\A p \in Procs : ~ Busy(p)) /\ NotifyOne
    \/ Tick
    \/ \E p \in callers :
          \/ \E timeout \in 0 .. MaxTimeout : CallExecute(p, CmdGetAts, timeout)
          \/ Execute(p)
          \/ Forget(p)

SpecQuiet == InitDevice /\ [][NextQuiet]_vars

(***************************************************************************)
(* block_read, get_uid and get_ats called while notifications arrive.      *)
(***************************************************************************)
NextRead ==
    \/ NotifyOne
    \/ Tick
    \/ \E p \in callers :
          \/ \E block \in Blocks, length \in Lengths : CallBlockRead(p, block, length)
          \/ CallGetUid(p)
          \/ CallGetAts(p)
          \/ Execute(p)
          \/ Forget(p)

SpecRead == InitDefault /\ [][NextRead]_vars

(***************************************************************************)
(* auth called while notifications arrive.                                 *)
(***************************************************************************)
NextAuth ==
    \/ NotifyOne
    \/ Tick
    \/ \E p \in callers :
          \/ \E key \in Keys, block \in Blocks, key_type \in KeyTypes :
                CallAuth(p, key, block, key_type)
          \/ CommitCheck(p)
          \/ Execute(p)
          \/ Forget(p)

SpecAuth == InitDefault /\ [][NextAuth]_vars

(***************************************************************************)
(* The key search of main against a mocked reader and card: a reader and a *)
(* MIFARE Classic card are tracked and stay, the last refresh is a poll    *)
(* period or more ago.                                                     *)
(***************************************************************************)
\* the (block, key type, key) triples the mocked cards accept
MockCards ==
    { {},
      { <<b, t, DEFAULT_KEYS[1]>> : b \in 0 .. 63, t \in {0, 1} },
      { <<3, 1, DEFAULT_KEYS[6]>> },
      { <<0, 0, DEFAULT_KEYS[1]>>, <<0, 0, DEFAULT_KEYS[3]>>,
        <<5, 0, DEFAULT_KEYS[11]>>, <<63, 1, DEFAULT_KEYS[16]>>,
        <<64, 0, DEFAULT_KEYS[2]>>, <<255, 1, DEFAULT_KEYS[1]>> } }

InitSearch ==
    /\ filter = <<"A", "C", "R">>
    /\ period = 1
    /\ \/ reader = "R1" /\ card = "K1"
       \/ reader = "R2" /\ card = "K4"
    /\ age = period
    /\ conn = [c \in Cards |-> 0]
    /\ notice = "ok"
    /\ callers = {1}
    /\ mock \in { [on |-> TRUE, accepts |-> a] : a \in MockCards }
    /\ slots = [n \in {0, 1} |-> <<>>]
    /\ ex = [p \in Procs |-> Idle]

NextSearch ==
    \E p \in callers :
        \/ CallSearch(p)
        \/ CommitCheck(p)
        \/ Execute(p)
        \/ Forget(p)

SpecSearch == InitSearch /\ [][NextSearch]_vars

(***************************************************************************)
(* All five commands called while notifications arrive.                    *)
(***************************************************************************)
NextCommands ==
    \/ NotifyOne
    \/ Tick
    \/ \E p \in callers :
          \/ \E timeout \in 0 .. MaxTimeout : CallExecute(p, CmdGetAts, timeout)
          \/ CallGetUid(p)
          \/ CallGetAts(p)
          \/ \E block \in {-1, 63} : CallBlockRead(p, block, 16)
          \/ \E block \in {-1, 63}, key_type \in {0, 1} :
                CallAuth(p, DEFAULT_KEYS[1], block, key_type)
          \/ CommitCheck(p)
          \/ Execute(p)
          \/ Forget(p)

SpecCommands == InitDefault /\ [][NextCommands]_vars

(***************************************************************************)
(* Two threads calling execute against one tracked card that stays.        *)
(***************************************************************************)
InitTwo ==
    /\ filter = <<"A", "C", "R">>
    /\ period \in 1 .. MaxPeriod
    /\ reader = "R1"
    /\ card = "K1"
    /\ age = 0
    /\ conn = [c \in Cards |-> 0]
    /\ notice = "ok"
    /\ callers = {1, 2}
    /\ mock = [on |-> FALSE, accepts |-> {}]
    /\ slots = [n \in {0, 1} |-> <<>>]
    /\ ex = [p \in Procs |-> Idle]

NextTwo ==
    \/ Tick
    \/ \E p \in callers :
          \/ \E timeout \in 0 .. MaxTimeout : CallExecute(p, CmdGetAts, timeout)
          \/ Execute(p)
          \/ Forget(p)

SpecTwo == InitTwo /\ [][NextTwo]_vars

(***************************************************************************)
(* parse_response called on its own, on every pair of status bytes.        *)
(***************************************************************************)
Bytes == 0 .. 255

\* ACR122u.parse_response(response), the static method
CallParseResponse(p, response) ==
    /\ ex[p].pc = "idle"
    /\ ex' = [ex EXCEPT ![p] =
                [Idle EXCEPT !.op = "parse_response", !.pc = "done",
                             !.got = <<response>>,
                             !.result = parse_response(response)]]
    /\ UNCHANGED <<session, conn, setup, slots>>

NextClassify ==
    \E p \in callers :
        \/ /\ ex[p].pc = "idle"
           /\ \E data \in { <<>>, <<\hAA, \hBB>> }, sw1 \in Bytes, sw2 \in Bytes :
                 CallParseResponse(p, <<data, sw1, sw2>>)
        \/ Forget(p)

SpecClassify == InitDefault /\ [][NextClassify]_vars

(***************************************************************************)
(* The claims.                                                             *)
(***************************************************************************)

\* C1: in every state reached by update and update_card notifications, a
\* tracked card implies a tracked reader.
C1_CardImpliesReader == card # None => reader # None

\* the call of p ends in this step
Ends(p) == ex[p].pc # "done" /\ ex'[p].pc = "done"

\* the failure the session state calls for when execute times out
TimeoutFailure ==
    IF reader = None THEN NoReaderConnected
    ELSE IF card = None THEN NoCardPresent
    ELSE CommandTimeout

\* C2: when execute ends by one of its timeout failures, the failure is the one
\* the session state of that moment calls for: no reader, else no card, else
\* the fatal timeout.
C2_TimeoutFailureByState ==
    [][\A p \in Procs :
          (Ends(p) /\ ex'[p].err \in TimeoutErrors) => ex'[p].err = TimeoutFailure]_vars

\* C3: with no notification during the call, a call of execute that attached a
\* connection has ended only with no connection of its own left on any card.
C3_ConnectionReleased ==
    \A p \in Procs :
        (ex[p].pc = "done" /\ ex[p].opened) => \A c \in Cards : conn[c] # p

\* the outcome of the load phase of the auth call in e, once it has returned
LoadMessage(e) ==
    IF e.op = "auth" /\ e.result # NoResult /\ Len(e.got) >= 1
    THEN parse_response(e.got[1]).message
    ELSE "none"

NoCommitSent(e) == \A i \in DOMAIN e.sent : ~ IsCommitAuth(e.sent[i])

\* C4: an auth call whose load phase returned an outcome other than Success has
\* returned that load-phase response, and has transmitted no commit command.
C4_AuthShortCircuit ==
    \A p \in Procs :
        LoadMessage(ex[p]) \in {"Failed", "Not Supported", "Unknown"} =>
            /\ ex[p].pc = "done"
            /\ ex[p].err = NoErr
            /\ ex[p].result = parse_response(ex[p].got[1])
            /\ NoCommitSent(ex[p])

C4_Witness ==
    \E p \in Procs :
        /\ ex[p].op = "auth" /\ ex[p].pc = "done"
        /\ ex[p].result.message = "Failed"
        /\ Len(ex[p].sent) = 1 /\ IsLoadKey(ex[p].sent[1])

\* C5 as stated: an auth call whose load phase succeeded has, when it ends,
\* transmitted the commit command after the load command and returned the
\* commit response.  (Stated for the calls that did not end in the assert
\* of __commit_auth or in an error of a concurrent card removal, so that what
\* refutes it is an error of the transport.)
C5_CommitAlwaysFollows ==
    \A p \in Procs :
        ( /\ LoadMessage(ex[p]) = "Success"
          /\ ex[p].pc = "done"
          /\ ex[p].err \notin {AssertionError, TypeError, AttributeError} ) =>
            /\ Len(ex[p].sent) = 2
            /\ IsCommitAuth(ex[p].sent[2])
            /\ ex[p].err = NoErr
            /\ Len(ex[p].got) = 2
            /\ ex[p].result = parse_response(ex[p].got[2])

\* C5 amended: in an auth call a commit command is transmitted only second,
\* after a load command whose response was Success; the slot byte of the load,
\* the slot byte of the commit and key_type are equal, the commit opcode is
\* 0x60 + key_type; and an auth call that returns after a successful load has
\* transmitted the commit and returns its response.
C5_SlotDiscipline ==
    \A p \in Procs :
        LET e == ex[p] IN
        e.op = "auth" =>
            /\ \A i \in DOMAIN e.sent :
                  IsCommitAuth(e.sent[i]) =>
                      /\ i = 2
                      /\ IsLoadKey(e.sent[1])
                      /\ parse_response(e.got[1]).message = "Success"
                      /\ e.sent[1][4] = e.ktype
                      /\ e.sent[2][10] = e.ktype
                      /\ e.sent[2][9] = \h60 + e.ktype
                      /\ e.sent[2][8] = e.block
            /\ (LoadMessage(e) = "Success" /\ e.pc = "done" /\ e.err = NoErr) =>
                  /\ Len(e.sent) = 2
                  /\ IsCommitAuth(e.sent[2])
                  /\ Len(e.got) = 2
                  /\ e.result = parse_response(e.got[2])

C5_Witness ==
    \E p \in Procs :
        /\ ex[p].op = "auth" /\ ex[p].pc = "done" /\ ex[p].err = NoErr
        /\ ex[p].ktype = 1
        /\ Len(ex[p].sent) = 2 /\ IsCommitAuth(ex[p].sent[2])
        /\ ex[p].result.message = "Failed"

\* the positions of execute after _stall has returned
PastStall == {"loop", "create", "connect", "transmit", "finally", "chk_reader", "chk_card"}

\* C8: an execute entered D after the last refresh, D < period, is past its
\* stall (starts its timeout window, attempts a transmit) only once period - D
\* has passed since it was entered.
C8_StallBlocks ==
    \A p \in Procs : ex[p].pc \in PastStall => ex[p].owed = 0

C8_Witness ==
    \E p \in Procs :
        /\ ex[p].pc = "transmit"
        /\ 0 < ex[p].d0 /\ ex[p].d0 < period
        /\ ex[p].owed = 0

\* C9: block_read(block, length) called while a card of known block count N is
\* tracked, with block < 0, block >= N or length outside 0..16, ends at once
\* with an AssertionError and has transmitted nothing.
C9_BoundsBeforeTransmit ==
    [][\A p \in Procs :
          ( /\ ex[p].pc = "idle"
            /\ ex'[p].op = "block_read"
            /\ card # None
            /\ CardType(card).kind = "tuple"
            /\ \/ ex'[p].block < 0
               \/ ex'[p].block >= CardType(card).blocks
               \/ ex'[p].length < 0
               \/ ex'[p].length > 16 )
          => ( /\ ex'[p].pc = "done"
               /\ ex'[p].err = AssertionError
               /\ ex'[p].sent = <<>> )]_vars

C9_Witness ==
    \E p \in Procs :
        /\ ex[p].op = "block_read" /\ ex[p].pc = "done"
        /\ ex[p].block = 64 /\ card = "K1"
        /\ ex[p].err = AssertionError /\ ex[p].sent = <<>>

\* C10: if no reader is ever tracked, every execute call in progress ends by
\* raising NoReaderConnected, and nothing is ever transmitted.
C10_NoReaderTerminates ==
    [](reader = None) =>
        /\ [](\A p \in Procs : ex[p].sent = <<>>)
        /\ \A p \in Procs :
              [](Busy(p) => <>(ex[p].pc = "done" /\ ex[p].err = NoReaderConnected))

C10_Witness ==
    \E p \in Procs :
        /\ ex[p].op = "execute" /\ ex[p].pc = "done"
        /\ ex[p].err = NoReaderConnected /\ ex[p].sent = <<>>
        /\ reader = None /\ card = None

\* the mocked card accepts the key at catalog position j for (b, t)
Accepts(b, t, j) == <<b, t, DEFAULT_KEYS[j]>> \in mock.accepts

\* (a scan of what the card accepts, which is a handful of triples, and
\* only then of the catalog)
HasMatch(b, t) ==
    /\ \E a \in mock.accepts : a[1] = b /\ a[2] = t
    /\ \E j \in DOMAIN DEFAULT_KEYS : Accepts(b, t, j)

FirstMatch(b, t) ==
    CHOOSE j \in DOMAIN DEFAULT_KEYS :
        Accepts(b, t, j) /\ \A k \in 1 .. (j - 1) : ~ Accepts(b, t, k)

\* the auth calls a first-match search makes for (b, t)
Cost(b, t) == IF HasMatch(b, t) THEN FirstMatch(b, t) ELSE Len(DEFAULT_KEYS)

\* the auth calls, and the reports, a first-match search makes for the
\* combinations cs[lo] .. cs[hi]
RECURSIVE CallsIn(_, _, _)
CallsIn(cs, lo, hi) ==
    IF lo > hi THEN 0
    ELSE IF lo = hi THEN Cost(cs[lo][1], cs[lo][2])
    ELSE LET mid == (lo + hi) \div 2
         IN  CallsIn(cs, lo, mid) + CallsIn(cs, mid + 1, hi)

RECURSIVE ReportsIn(_, _, _)
ReportsIn(cs, lo, hi) ==
    IF lo > hi THEN <<>>
    ELSE IF lo = hi
         THEN IF HasMatch(cs[lo][1], cs[lo][2])
              THEN << <<cs[lo][1], cs[lo][2],
                        DEFAULT_KEYS[FirstMatch(cs[lo][1], cs[lo][2])]>> >>
              ELSE <<>>
    ELSE LET mid == (lo + hi) \div 2
         IN  ReportsIn(cs, lo, mid) \o ReportsIn(cs, mid + 1, hi)

CallsOf(cs) == CallsIn(cs, 1, Len(cs))

ReportsOf(cs) == ReportsIn(cs, 1, Len(cs))

\* the combinations the search is through with
Completed(e) ==
    IF e.tried = <<>> THEN e.combos ELSE SubSeq(e.combos, 1, Len(e.combos) - 1)

OnlyBlock3 == { <<3, 1, DEFAULT_KEYS[6]>> }

AllCombos(n) == [i \in 1 .. 2 * n |-> <<(i - 1) \div 2, (i - 1) % 2>>]

\* C7: a search that has returned has attempted every block of the tracked
\* card and both key types, in increasing (block, key type) order.
C7_SearchCoversCard ==
    \A p \in Procs :
        (ex[p].op = "search" /\ ex[p].pc = "done" /\ ex[p].err = NoErr /\ card # None) =>
            ex[p].combos = AllCombos(CardType(card).blocks)

\* the arguments of the auth call in e break the contract of auth whatever
\* card is tracked: wrong key length, key slot / key type outside {0, 1},
\* negative block
AuthContractBroken(e) ==
    \/ Len(e.key) # 6
    \/ e.ktype \notin {0, 1}
    \/ e.block < 0

\* C11: an auth call with a wrong key length, a key slot / key type outside
\* {0, 1} or a negative block transmits no command, the load-key command
\* included.
C11_AuthFailsFast ==
    [][\A p \in Procs :
          (ex[p].op = "auth" /\ Len(ex'[p].sent) > Len(ex[p].sent))
              => ~ AuthContractBroken(ex[p])]_vars

\* C12: block_read(block, length) called with block >= 0 and length in 0..16
\* while a card of unrecognized type is tracked passes its checks and enters
\* execute with the read command.
C12_UnknownCardSkipsCheck ==
    [][\A p \in Procs :
          ( /\ ex[p].pc = "idle"
            /\ ex'[p].op = "block_read"
            /\ card # None
            /\ CardType(card).kind = "str"
            /\ ex'[p].block >= 0
            /\ ex'[p].length >= 0 /\ ex'[p].length <= 16 )
          => ( /\ ex'[p].pc = "stall"
               /\ ex'[p].err = NoErr
               /\ ex'[p].cmd = CmdBlockRead(ex'[p].block, ex'[p].length) )]_vars

\* C13: a card-list-changed notification that carries more than one added
\* card or more than one removed card, delivered while a reader is tracked,
\* ends in a reported failure.
C13_BreachReported ==
    [][\A cnew \in Lists(Cards), cold \in Lists(Cards) :
          ( /\ reader # None
            /\ Len(cnew) > 1 \/ Len(cold) > 1
            /\ Range(cnew) \cap Range(cold) = {}
            /\ UpdateCard(cnew, cold) )
          => notice' = "AssertionError"]_vars

\* the outcome the status words (sw1, sw2) stand for
Outcome(sw1, sw2) ==
    CASE sw1 = 144 /\ sw2 = 0   -> "Success"
      [] sw1 = 99  /\ sw2 = 0   -> "Failed"
      [] sw1 = 106 /\ sw2 = 129 -> "Not Supported"
      [] OTHER                  -> "Unknown"

\* C14: for every pair of status bytes parse_response returns, without
\* raising, exactly the outcome the pair stands for: Success for (0x90, 0x00),
\* Failed for (0x63, 0x00), Not Supported for (0x6A, 0x81), Unknown otherwise;
\* and the hex form of data, sw1 and sw2.
C14_ClassifierTotal ==
    \A p \in Procs :
        LET e == ex[p] IN
        (e.op = "parse_response" /\ e.pc = "done") =>
            /\ e.err = NoErr
            /\ e.result.message \in {"Success", "Failed", "Not Supported", "Unknown"}
            /\ e.result.message = Outcome(e.got[1][2], e.got[1][3])
            /\ Len(e.result.data) = Len(e.got[1][1])
            /\ Len(e.result.sw1) = 1 /\ Len(e.result.sw2) = 1

C14_Witness ==
    \E p \in Procs :
        /\ ex[p].op = "parse_response" /\ ex[p].pc = "done"
        /\ ex[p].got = << << <<>>, \h90, \h81 >> >>
        /\ ex[p].result.message = "Unknown"
        /\ ex[p].result.sw1 = << <<"9", "0">> >>
        /\ ex[p].result.sw2 = << <<"8", "1">> >>

\* the reader's name contains the filter, or the filter is empty
InFilter(r) ==
    \/ filter = <<>>
    \/ \E i \in 1 .. Len(ReaderName(r)) :
          \E j \in i .. Len(ReaderName(r)) : SubSeq(ReaderName(r), i, j) = filter

OnTracked(cnew) == { i \in DOMAIN cnew : CardReader(cnew[i]) = ReaderName(reader) }

\* C16: with a reader tracked, update_card(cnew, cold) with at most one added
\* card on the tracked reader makes that card the tracked card; then a removed
\* card equal to the tracked card clears it; added cards of other readers and
\* removed cards other than the tracked card change nothing.
C16_CardTransition ==
    [][\A cnew \in Lists(Cards), cold \in Lists(Cards) :
          ( /\ reader # None
            /\ Range(cnew) \cap Range(cold) = {}
            /\ Cardinality(OnTracked(cnew)) <= 1
            /\ UpdateCard(cnew, cold) ) =>
              LET c1 == IF OnTracked(cnew) = {} THEN card
                        ELSE cnew[CHOOSE i \in OnTracked(cnew) : TRUE]
              IN  /\ card' = IF c1 \in Range(cold) THEN None ELSE c1
                  /\ reader' = reader
                  /\ notice' = "ok"]_vars

C16_Witness ==
    /\ reader = "R1"
    /\ card = "KU"
    /\ age = 0
    /\ notice = "ok"

\* C17: update_card delivered while no reader is tracked leaves the tracked
\* card and the tracked reader as they were, whatever cards it lists; it only
\* refreshes the time of the last notification.
C17_CardGatedByReader ==
    [][\A cnew \in Lists(Cards), cold \in Lists(Cards) :
          ( /\ reader = None
            /\ Range(cnew) \cap Range(cold) = {}
            /\ UpdateCard(cnew, cold) ) =>
              /\ card' = card
              /\ reader' = None
              /\ age' = 0
              /\ UNCHANGED <<filter, period, conn, slots, ex>>]_vars

C17_Witness ==
    /\ reader = None
    /\ card # None
    /\ age = 0
    /\ notice = "ok"

\* the call state of a caller without its clock readings
Timeless(e) == [e EXCEPT !.left = 0, !.elapsed = 0, !.owed = 0]

\* a step of a command: a caller moves on in execute, auth, block_read,
\* get_uid or get_ats, enters one of them or leaves it
CommandStep == \E p \in Procs : Timeless(ex'[p]) # Timeless(ex[p])

\* C18: no step of execute, auth, block_read, get_uid or get_ats changes the
\* tracked reader, the tracked card or the time of the last refresh, whether
\* the call returns or raises.
C18_CommandsKeepSession ==
    [][CommandStep => (reader' = reader /\ card' = card /\ age' = age)]_vars

C18_Witness ==
    \E p \in Procs :
        /\ ex[p].op = "auth" /\ ex[p].pc = "done" /\ ex[p].err = NoErr
        /\ Len(ex[p].sent) = 2
        /\ reader = "R1" /\ card = "K1" /\ age = 1

\* C19: an execute whose transmit ran and whose card was removed meanwhile has
\* ended with the transmit's response or the transmit's own error, and has
\* left no connection of its own on any card.
C19_CleanupUnderRemoval ==
    \A p \in Procs :
        (ex[p].op = "execute" /\ ex[p].pc = "done" /\ ex[p].sent # <<>> /\ card = None) =>
            /\ ex[p].err \in {NoErr, TransmitError}
            /\ \A c \in Cards : conn[c] # p

\* C20: with two callers in execute against the same tracked card, a caller's
\* transmit runs on the connection that caller's own call attached, and the
\* connection a caller deletes is its own.
C20_OwnConnection ==
    [][\A p \in Procs :
          /\ (ex[p].pc = "transmit" /\ Len(ex'[p].sent) > Len(ex[p].sent))
                => conn[card] = p
          /\ (ex[p].pc = "finally" /\ conn' # conn)
                => conn[card] = p]_vars

\* C21: when execute ends by one of its timeout failures, a poll period or
\* more has passed since the most recent refresh, refreshes that arrived
\* during the stall or the loop included.
C21_NoTimeoutInsidePeriod ==
    [][\A p \in Procs :
          (Ends(p) /\ ex'[p].err \in TimeoutErrors) => age >= period]_vars

\* C22: a read-block command is transmitted only with a block index below the
\* block count of the card tracked at the transmit, the card it goes to.
C22_TransmitWithinCard ==
    [][\A p \in Procs :
          ( /\ ex[p].pc = "transmit"
            /\ Len(ex'[p].sent) > Len(ex[p].sent)
            /\ IsBlockRead(ex[p].cmd)
            /\ card # None
            /\ CardType(card).kind = "tuple" )
          => ex[p].cmd[4] < CardType(card).blocks]_vars

=============================================================================
